---- MODULE Spec2Model ----
(***************************************************************************)
(* Model of moto3's QueueManager.upload (src/moto3/queue_manager.py):      *)
(* the enumeration of the messages into SQS entries, the partition into    *)
(* batches of 10, the choice between the sequential loop and the worker    *)
(* pool, the retry loop around _upload_batch on both paths and the         *)
(* draining of the pool's results.                                         *)
(***************************************************************************)
EXTENDS Integers, Sequences, FiniteSets, TLC

\* ------------------------------------------------------------------------
\* Bounds of the model
\* ------------------------------------------------------------------------
MaxLen == 19          \* longest message list whose upload is run
MaxListLen == 35      \* longest message list that is cut into batches
MaxLiveLen == 11      \* longest message list in the runs checked for termination
MaxCpu == 3           \* largest multiprocessing.cpu_count()
MaxBelow == 1         \* how far below zero max_retries goes
MaxRetries == 3       \* largest max_retries handed to upload
MaxFail == 3          \* most transient failures a submission function has in store

\* ------------------------------------------------------------------------
\* Program constants
\* ------------------------------------------------------------------------
batch_size == 10

Min(a, b) == IF a < b THEN a ELSE b

Max(a, b) == IF a < b THEN b ELSE a

CeilDiv(a, b) == (a + b - 1) \div b

\* ------------------------------------------------------------------------
\* Pure functions of upload
\* ------------------------------------------------------------------------
Digits == <<"0", "1", "2", "3", "4", "5", "6", "7", "8", "9">>

\* str(i) / f"{i}" of a non-negative int: its decimal digits
RECURSIVE Str(_)
Str(n) == IF n < 10 THEN Digits[n + 1]
          ELSE Str(n \div 10) \o Digits[(n % 10) + 1]

\* json.dumps of the non-string payloads of the model (ints)
JsonDumps(v) == Str(v)

\* a message handed to upload: a str, or something json.dumps serialises
StrMessage(i) == [isStr |-> TRUE, text |-> "m" \o Str(i), obj |-> 0]

ObjMessage(i) == [isStr |-> FALSE, text |-> "", obj |-> i]

\* the message lists of the model: L messages with pairwise different
\* payloads, strings at the odd places and other values at the even ones
MessageList(L) ==
    [i \in 1..L |-> IF i % 2 = 1 THEN StrMessage(i) ELSE ObjMessage(i)]

\* "MessageBody": message if isinstance(message, str) else json.dumps(message)
MessageBody(message) ==
    IF message.isStr THEN message.text ELSE JsonDumps(message.obj)

\* [{"Id": f"{i}", "MessageBody": ...} for i, message in enumerate(messages)]
\* enumerate counts from 0; TLA+ sequences count from 1
EnumerateFromOne(msgs) ==
    [p \in 1..Len(msgs) |->
        [Id |-> Str(p), MessageBody |-> MessageBody(msgs[p])]]

Enumerate(msgs) ==
    [p \in 1..Len(msgs) |->
        [Id |-> Str(p - 1), MessageBody |-> MessageBody(msgs[p])]]

\* range(0, len(messages), batch_size)
BatchStarts(n) == {i \in 0..(n - 1) : i % batch_size = 0}

\* messages[i : i + batch_size], a Python slice (clipped at the end of the list)
SliceShort(s, from, to) ==
    [j \in 1..(Min(to - 1, Len(s)) - Min(from, Len(s))) |-> s[from + j]]

Slice(s, from, to) ==
    [j \in 1..(Min(to, Len(s)) - Min(from, Len(s))) |-> s[from + j]]

\* batches = [messages[i : i + batch_size] for i in range(0, len(messages), batch_size)]
MakeBatches(entries) ==
    [b \in 1..Cardinality(BatchStarts(Len(entries))) |->
        Slice(entries, (b - 1) * batch_size, (b - 1) * batch_size + batch_size)]

\* len(batches) < multiprocessing.cpu_count()
SequentialOrEqual(nb, cpu) == nb <= cpu

Sequential(nb, cpu) == nb < cpu

\* ------------------------------------------------------------------------
\* The submission function: _upload_batch, as the remote service answers it
\* ------------------------------------------------------------------------
\* A script [k, fin]: the first k calls raise ResponseParserError, call k+1
\* ends as fin says ("ok": returns, "fatal": raises another error).
Scripts == [k : 0..MaxFail, fin : {"ok", "fatal"}]

NoScript == [k |-> 0, fin |-> "none"]

\* the answer to the call numbered r (zero-based) under script sc
Answer(sc, r) == IF r < sc.k THEN "transient" ELSE sc.fin

\* except botocore.parsers.ResponseParserError: the errors the retry loop handles
CaughtAll(a) == a \in {"transient", "fatal"}

Caught(a) == a = "transient"

\* retry < max_retries - 1: a further attempt is permitted
NotLastRetryLate(r, m) == r < m

NotLastRetry(r, m) == r < m - 1

\* for retry in range(max_retries): the next value of the loop variable
SameRetry(r) == r

NextRetry(r) == r + 1

\* for retry in range(max_retries): the loop body runs for retry
InRangeInclusive(r, m) == r <= m

InRange(r, m) == r < m

NoResult == [ready |-> FALSE, raised |-> FALSE, value |-> "None"]

NoError == [batch |-> 0, err |-> "None"]

VARIABLES
    cpu_count,     \* multiprocessing.cpu_count()
    pc,            \* where upload is: "idle", "seq", "pool", "returned", "raised"
    messages,      \* the argument of upload
    max_retries,   \* the argument of upload
    sleep_time,    \* the argument of upload
    batches,       \* the batches upload built
    script,        \* per batch: how the service answers its submissions
    retry,         \* per batch: the loop variable of its retry loop
    phase,         \* per batch: "new", "try", "sleep", "done", "killed"
    attempts,      \* per batch: calls of _upload_batch
    sleeps,        \* per batch: calls of time.sleep
    slept,         \* per batch: total time slept
    sent,          \* per batch: calls of _upload_batch that returned
    outcome,       \* per batch: "none", "success", "exhausted", "fatal"
    cur,           \* sequential path: the batch the for loop is at (0: none yet)
    worker,        \* pooled path: per worker the batch it runs (0: idle, -1: terminated)
    taken,         \* pooled path: per batch how many times a worker took it
    nextTask,      \* pooled path: next batch of the task queue
    results,       \* pooled path: per batch the result the worker sent back
    drain,         \* pooled path: number of results upload has observed
    raisedErr,     \* the error upload raised: [batch, err]
    ticks          \* the count n of the tqdm progress bar

\* the remote services and the managers built on them
\* (QueueManager.__init__, S3Manager)
VARIABLES
    queues,        \* the names of the queues that exist in the queue service
    buckets,       \* the names of the caller's buckets that exist in the store
    queueCreates,  \* per queue name: calls of create_queue
    bucketCreates, \* per bucket name: calls of create_bucket
    constructs,    \* managers constructed so far
    qmgr,          \* the last QueueManager(...) call and the manager it left
    s3mgr,         \* the last S3Manager(...) call and the manager it left
    s3op,          \* the last key operation of the S3Manager: op, key, path
    up             \* the S3Manager.upload call, when it is the last call made

\* LocalQueueManager
VARIABLES
    local_messages,  \* self.messages
    current_index,   \* self.current_index
    warnings,        \* records logger.warning has emitted
    lcalls,          \* calls of the manager's methods so far
    lcall,           \* the last call: method, whether it raised, what it returned
    skipped,         \* the messages upload appended at an index below the cursor
    rewound          \* some get_next was called with max_messages < 0

uploadVars == <<cpu_count, pc, messages, max_retries, sleep_time, batches,
                script, retry, phase, attempts, sleeps, slept, sent, outcome,
                cur, worker, taken, nextTask, results, drain, raisedErr, ticks>>

storeVars == <<queues, buckets, queueCreates, bucketCreates, constructs, qmgr,
               s3mgr, s3op, up>>

localVars == <<local_messages, current_index, warnings, lcalls, lcall,
               skipped, rewound>>

vars == <<uploadVars, storeVars, localVars>>

NB == Len(batches)

SleepTimes == {1, 5}

Workers == 1..cpu_count

\* ------------------------------------------------------------------------
\* names, paths and answers of the remote services

\* A path is the sequence of its characters.
QueueNames == {"q1", "q2"}

BucketArgs == {<<"b">>, <<"b", "/", "d">>, <<"b", "/", "d", "/", "e">>,
               <<"c", "/">>}

Keys == {<<"k">>, <<"x", "/", "k">>}

MaxConstructs == 3

MaxLoaded == 2

MaxAppend == 2

MaxGet == 3

MaxLocalCalls == 5

MaxBack == 2

stop_after_attempt == 5

Contains(s, c) == \E i \in 1..Len(s) : s[i] = c

\* s.split("/")[0]
RECURSIVE SplitFirst(_)
SplitFirst(s) ==
    IF s = <<>> THEN <<>>
    ELSE IF Head(s) = "/" THEN <<>>
    ELSE <<Head(s)>> \o SplitFirst(Tail(s))

\* s[i:] for i >= 0
SliceFrom(s, i) == IF i >= Len(s) THEN <<>> ELSE SubSeq(s, i + 1, Len(s))

\* bucket_name and dirpath as S3Manager.__init__ takes them from its argument
BucketNameOf(arg) == IF Contains(arg, "/") THEN SplitFirst(arg) ELSE arg

DirpathOf(arg) ==
    IF Contains(arg, "/") THEN SliceFrom(arg, Len(arg) + 1) ELSE <<>>

\* the text of the argument after the bucket name and its "/"
AfterBucket(arg) == SliceFrom(arg, Len(SplitFirst(arg)) + 1)

\* os.path.join(a, p)
PathJoin(a, p) ==
    IF p # <<>> /\ Head(p) = "/" THEN p
    ELSE IF a = <<>> THEN p
    ELSE IF a[Len(a)] = "/" THEN a \o p
    ELSE a \o <<"/">> \o p

BucketNames == {BucketNameOf(a) : a \in BucketArgs}

Url(name) == "https://sqs/" \o name

\* what get_queue_by_name answers: the queue, QueueDoesNotExist, a
\* ClientError whose text holds "NonExistentQueue", another ClientError, or
\* an error that is no ClientError
QueueAnswers(exists) ==
    IF exists THEN {"found", "AccessDenied", "EndpointConnectionError"}
    ELSE {"QueueDoesNotExist", "NonExistentQueue", "AccessDenied",
          "EndpointConnectionError"}

\* what head_bucket answers: nothing, a ClientError (404, 403), or an error
\* that is no ClientError
HeadAnswers(exists) ==
    IF exists THEN {"found", "Forbidden", "EndpointConnectionError"}
    ELSE {"NotFound", "Forbidden", "EndpointConnectionError"}

NotFoundAnswers == {"QueueDoesNotExist", "NonExistentQueue", "NotFound"}

\* what put_object answers
PutAnswers == {"ok", "SlowDown", "AccessDenied"}

KeyOps == {"delete", "upload_file", "read_file", "exists", "download_file"}

NoQueueManager ==
    [ok |-> FALSE, name |-> "None", url |-> "None", answer |-> "None",
     created |-> FALSE, existed |-> FALSE, err |-> "None"]

NoS3Manager ==
    [ok |-> FALSE, arg |-> <<>>, bucket_name |-> <<>>, dirpath |-> <<>>,
     answer |-> "None", created |-> FALSE, createAnswer |-> "None",
     existed |-> FALSE, err |-> "None"]

NoKeyOp == [op |-> "None", key |-> <<>>, path |-> <<>>]

NoUpload ==
    [pc |-> "idle", key |-> <<>>, path |-> <<>>, attempt |-> 0, calls |-> 0,
     waits |-> 0, fatalAt |-> 0, err |-> "None"]

NoCall == [op |-> "None", max_messages |-> 0, raised |-> "None", out |-> <<>>]

\* ------------------------------------------------------------------------
\* initial states

UploadIdle ==
    /\ pc = "idle"
    /\ messages = <<>>
    /\ max_retries = 3
    /\ sleep_time = 5
    /\ batches = <<>>
    /\ script = <<>>
    /\ retry = <<>>
    /\ phase = <<>>
    /\ attempts = <<>>
    /\ sleeps = <<>>
    /\ slept = <<>>
    /\ sent = <<>>
    /\ outcome = <<>>
    /\ cur = 0
    /\ worker = [w \in 1..cpu_count |-> 0]
    /\ taken = <<>>
    /\ nextTask = 1
    /\ results = <<>>
    /\ drain = 0
    /\ raisedErr = NoError
    /\ ticks = 0

ManagersFresh ==
    /\ queueCreates = [n \in QueueNames |-> 0]
    /\ bucketCreates = [b \in BucketNames |-> 0]
    /\ constructs = 0
    /\ qmgr = NoQueueManager
    /\ s3mgr = NoS3Manager
    /\ s3op = NoKeyOp
    /\ up = NoUpload

LocalLoaded(msgs) ==
    /\ local_messages = msgs
    /\ current_index = 0
    /\ warnings = 0
    /\ lcalls = 0
    /\ lcall = NoCall
    /\ skipped = {}
    /\ rewound = FALSE

Init ==
    /\ cpu_count \in 1..MaxCpu
    /\ UploadIdle
    /\ queues = {}
    /\ buckets = {}
    /\ ManagersFresh
    /\ LocalLoaded(<<>>)

\* ------------------------------------------------------------------------
\* upload(messages, max_retries, sleep_time): entries, batches, choice of path
\* ------------------------------------------------------------------------
Upload(msgs, m, st) ==
    /\ pc = "idle"
    /\ messages' = msgs
    /\ max_retries' = m
    /\ sleep_time' = st
    /\ batches' = MakeBatches(Enumerate(msgs))
    /\ LET nb == Len(batches') IN
        /\ pc' = IF Sequential(nb, cpu_count) THEN "seq" ELSE "pool"
        /\ script' = [b \in 1..nb |-> NoScript]
        /\ retry' = [b \in 1..nb |-> 0]
        /\ phase' = [b \in 1..nb |-> "new"]
        /\ attempts' = [b \in 1..nb |-> 0]
        /\ sleeps' = [b \in 1..nb |-> 0]
        /\ slept' = [b \in 1..nb |-> 0]
        /\ sent' = [b \in 1..nb |-> 0]
        /\ outcome' = [b \in 1..nb |-> "none"]
        /\ taken' = [b \in 1..nb |-> 0]
        /\ results' = [b \in 1..nb |-> NoResult]
    /\ cur' = 0
    /\ nextTask' = 1
    /\ drain' = 0
    /\ raisedErr' = NoError
    /\ UNCHANGED <<cpu_count, worker>>
    /\ ticks' = 0
    /\ UNCHANGED <<storeVars, localVars>>

\* ------------------------------------------------------------------------
\* Sequential path: for batch in tqdm(batches): for retry in range(max_retries)
\* ------------------------------------------------------------------------
\* tqdm's iterator: for obj in iterable: yield obj; n += 1 -- the count goes
\* up when the loop asks for the next item, so not for an item whose loop body
\* raised (the generator is closed instead)
TickedAlways(n, bodyRaised) == n + 1

Ticked(n, bodyRaised) == IF bodyRaised THEN n ELSE n + 1

\* raise e, or an error no except clause handles: upload ends with the error
RaiseDropped(b, e) == UNCHANGED <<pc, raisedErr>>

RaiseFrom(b, e) ==
    /\ pc' = "raised"
    /\ raisedErr' = [batch |-> b, err |-> e]

\* the body of the for loop is not running: the loop is at its header
LoopBodyOver == IF cur = 0 THEN TRUE ELSE phase[cur] = "done"

\* the for loop takes the next batch; its submission function is the service's
SeqNextBatch ==
    /\ pc = "seq"
    /\ cur < NB
    /\ LoopBodyOver
    /\ cur' = cur + 1
    /\ \E sc \in Scripts : script' = [script EXCEPT ![cur + 1] = sc]
    /\ retry' = [retry EXCEPT ![cur + 1] = 0]
    /\ phase' = [phase EXCEPT ![cur + 1] = "try"]
    /\ UNCHANGED <<cpu_count, pc, messages, max_retries, sleep_time, batches,
                   attempts, sleeps, slept, sent, outcome, worker, taken,
                   nextTask, results, drain, raisedErr>>
    /\ ticks' = IF cur >= 1 THEN Ticked(ticks, FALSE) ELSE ticks
    /\ UNCHANGED <<storeVars, localVars>>

\* try: _upload_batch(batch); break / except ResponseParserError / other error
SeqAttempt ==
    /\ pc = "seq"
    /\ cur >= 1
    /\ phase[cur] = "try"
    /\ InRange(retry[cur], max_retries)
    /\ attempts' = [attempts EXCEPT ![cur] = @ + 1]
    /\ LET a == Answer(script[cur], retry[cur]) IN
        CASE a = "ok" ->
                /\ sent' = [sent EXCEPT ![cur] = @ + 1]
                /\ outcome' = [outcome EXCEPT ![cur] = "success"]
                /\ phase' = [phase EXCEPT ![cur] = "done"]
                /\ UNCHANGED <<pc, raisedErr>>
          [] Caught(a) /\ NotLastRetry(retry[cur], max_retries) ->
                /\ phase' = [phase EXCEPT ![cur] = "sleep"]
                /\ UNCHANGED <<sent, outcome, pc, raisedErr>>
          [] Caught(a) /\ ~NotLastRetry(retry[cur], max_retries) ->
                /\ outcome' = [outcome EXCEPT ![cur] = "exhausted"]
                /\ phase' = [phase EXCEPT ![cur] = "done"]
                /\ RaiseFrom(cur, "ResponseParserError")
                /\ UNCHANGED sent
          [] OTHER ->
                /\ outcome' = [outcome EXCEPT ![cur] = "fatal"]
                /\ phase' = [phase EXCEPT ![cur] = "done"]
                /\ RaiseFrom(cur, "FatalError")
                /\ UNCHANGED sent
    /\ UNCHANGED <<cpu_count, messages, max_retries, sleep_time, batches,
                   script, retry, sleeps, slept, cur, worker, taken, nextTask,
                   results, drain>>
    /\ UNCHANGED ticks
    /\ UNCHANGED <<storeVars, localVars>>

\* time.sleep(sleep_time), then the next retry of range(max_retries)
SeqSleep ==
    /\ pc = "seq"
    /\ cur >= 1
    /\ phase[cur] = "sleep"
    /\ sleeps' = [sleeps EXCEPT ![cur] = @ + 1]
    /\ slept' = [slept EXCEPT ![cur] = @ + sleep_time]
    /\ retry' = [retry EXCEPT ![cur] = NextRetry(@)]
    /\ phase' = [phase EXCEPT ![cur] = "try"]
    /\ UNCHANGED <<cpu_count, pc, messages, max_retries, sleep_time, batches,
                   script, attempts, sent, outcome, cur, worker, taken,
                   nextTask, results, drain, raisedErr>>
    /\ UNCHANGED ticks
    /\ UNCHANGED <<storeVars, localVars>>

\* range(max_retries) is used up without break or raise: on to the next batch
SeqRangeExhausted ==
    /\ pc = "seq"
    /\ cur >= 1
    /\ phase[cur] = "try"
    /\ ~InRange(retry[cur], max_retries)
    /\ outcome' = [outcome EXCEPT ![cur] = "success"]
    /\ phase' = [phase EXCEPT ![cur] = "done"]
    /\ UNCHANGED <<cpu_count, pc, messages, max_retries, sleep_time, batches,
                   script, retry, attempts, sleeps, slept, sent, cur, worker,
                   taken, nextTask, results, drain, raisedErr>>
    /\ UNCHANGED ticks
    /\ UNCHANGED <<storeVars, localVars>>

\* the for loop over the batches ends: upload returns
SeqReturn ==
    /\ pc = "seq"
    /\ cur = NB
    /\ LoopBodyOver
    /\ pc' = "returned"
    /\ UNCHANGED <<cpu_count, messages, max_retries, sleep_time, batches,
                   script, retry, phase, attempts, sleeps, slept, sent,
                   outcome, cur, worker, taken, nextTask, results, drain,
                   raisedErr>>
    /\ ticks' = IF cur >= 1 THEN Ticked(ticks, FALSE) ELSE ticks
    /\ UNCHANGED <<storeVars, localVars>>

\* ------------------------------------------------------------------------
\* Pooled path: with Pool(cpu_count) as p: for result in tqdm(p.imap(...))
\* ------------------------------------------------------------------------
\* an idle worker takes the next task of the pool's task queue (imap feeds the
\* tasks in the order of the list, one task per batch)
Dispatch(w) ==
    /\ pc = "pool"
    /\ worker[w] = 0
    /\ nextTask <= NB
    /\ worker' = [worker EXCEPT ![w] = nextTask]
    /\ taken' = [taken EXCEPT ![nextTask] = @ + 1]
    /\ nextTask' = nextTask + 1
    /\ \E sc \in Scripts : script' = [script EXCEPT ![nextTask] = sc]
    /\ retry' = [retry EXCEPT ![nextTask] = 0]
    /\ phase' = [phase EXCEPT ![nextTask] = "try"]
    /\ UNCHANGED <<cpu_count, pc, messages, max_retries, sleep_time, batches,
                   attempts, sleeps, slept, sent, outcome, cur, results,
                   drain, raisedErr>>
    /\ UNCHANGED ticks
    /\ UNCHANGED <<storeVars, localVars>>

\* _upload_batch_with_retry: try: _upload_batch(batch); return None
\* except ResponseParserError: sleep, or return e on the last retry;
\* another error leaves the function and the pool sends it back as raised
WorkerAttempt(w) ==
    /\ pc = "pool"
    /\ worker[w] >= 1
    /\ LET b == worker[w]
           a == Answer(script[b], retry[b]) IN
        /\ phase[b] = "try"
        /\ InRange(retry[b], max_retries)
        /\ attempts' = [attempts EXCEPT ![b] = @ + 1]
        /\ CASE a = "ok" ->
                /\ sent' = [sent EXCEPT ![b] = @ + 1]
                /\ outcome' = [outcome EXCEPT ![b] = "success"]
                /\ phase' = [phase EXCEPT ![b] = "done"]
                /\ results' = [results EXCEPT ![b] =
                      [ready |-> TRUE, raised |-> FALSE, value |-> "None"]]
                /\ worker' = [worker EXCEPT ![w] = 0]
             [] Caught(a) /\ NotLastRetry(retry[b], max_retries) ->
                /\ phase' = [phase EXCEPT ![b] = "sleep"]
                /\ UNCHANGED <<sent, outcome, results, worker>>
             [] Caught(a) /\ ~NotLastRetry(retry[b], max_retries) ->
                /\ outcome' = [outcome EXCEPT ![b] = "exhausted"]
                /\ phase' = [phase EXCEPT ![b] = "done"]
                /\ results' = [results EXCEPT ![b] =
                      [ready |-> TRUE, raised |-> FALSE,
                       value |-> "ResponseParserError"]]
                /\ worker' = [worker EXCEPT ![w] = 0]
                /\ UNCHANGED sent
             [] OTHER ->
                /\ outcome' = [outcome EXCEPT ![b] = "fatal"]
                /\ phase' = [phase EXCEPT ![b] = "done"]
                /\ results' = [results EXCEPT ![b] =
                      [ready |-> TRUE, raised |-> TRUE, value |-> "FatalError"]]
                /\ worker' = [worker EXCEPT ![w] = 0]
                /\ UNCHANGED sent
    /\ UNCHANGED <<cpu_count, pc, messages, max_retries, sleep_time, batches,
                   script, retry, sleeps, slept, cur, taken, nextTask, drain,
                   raisedErr>>
    /\ UNCHANGED ticks
    /\ UNCHANGED <<storeVars, localVars>>

\* time.sleep(sleep_time) in the worker, then the next retry
WorkerSleep(w) ==
    /\ pc = "pool"
    /\ worker[w] >= 1
    /\ LET b == worker[w] IN
        /\ phase[b] = "sleep"
        /\ sleeps' = [sleeps EXCEPT ![b] = @ + 1]
        /\ slept' = [slept EXCEPT ![b] = @ + sleep_time]
        /\ retry' = [retry EXCEPT ![b] = NextRetry(@)]
        /\ phase' = [phase EXCEPT ![b] = "try"]
    /\ UNCHANGED <<cpu_count, pc, messages, max_retries, sleep_time, batches,
                   script, attempts, sent, outcome, cur, worker, taken,
                   nextTask, results, drain, raisedErr>>
    /\ UNCHANGED ticks
    /\ UNCHANGED <<storeVars, localVars>>

\* range(max_retries) is used up without a return: the function ends, which
\* returns None
WorkerRangeExhausted(w) ==
    /\ pc = "pool"
    /\ worker[w] >= 1
    /\ LET b == worker[w] IN
        /\ phase[b] = "try"
        /\ ~InRange(retry[b], max_retries)
        /\ outcome' = [outcome EXCEPT ![b] = "success"]
        /\ phase' = [phase EXCEPT ![b] = "done"]
        /\ results' = [results EXCEPT ![b] =
              [ready |-> TRUE, raised |-> FALSE, value |-> "None"]]
    /\ worker' = [worker EXCEPT ![w] = 0]
    /\ UNCHANGED <<cpu_count, pc, messages, max_retries, sleep_time, batches,
                   script, retry, attempts, sleeps, slept, sent, cur, taken,
                   nextTask, drain, raisedErr>>
    /\ UNCHANGED ticks
    /\ UNCHANGED <<storeVars, localVars>>

\* isinstance(result, Exception), or the result is an error the worker raised
\* (imap's iterator raises it again in upload)
IsRaisedOnly(r) == r.raised

IsFailure(r) == r.raised \/ r.value # "None"

\* Pool.__exit__ calls terminate(): the worker processes are stopped at once,
\* whatever they are doing
Terminated(ph) ==
    [b \in DOMAIN ph |-> IF ph[b] \in {"try", "sleep"} THEN "killed" ELSE ph[b]]

\* p.imap yields the results in the order of the tasks: after d results the
\* next one is that of batch d + 1, whichever results are ready
NextResultUnordered(rs, d) ==
    IF \E b \in (d + 1)..Len(rs) : rs[b].ready
    THEN CHOOSE b \in (d + 1)..Len(rs) :
            rs[b].ready /\ \A c \in (d + 1)..Len(rs) : rs[c].ready => c <= b
    ELSE d + 1

NextResult(rs, d) == d + 1

\* upload takes the next result of imap, in the order of the batches
Observe ==
    /\ pc = "pool"
    /\ drain < NB
    /\ results[NextResult(results, drain)].ready
    /\ drain' = NextResult(results, drain)
    /\ IF IsFailure(results[NextResult(results, drain)])
       THEN /\ RaiseFrom(NextResult(results, drain), results[NextResult(results, drain)].value)
            /\ phase' = Terminated(phase)
            /\ worker' = [w \in Workers |-> -1]
       ELSE UNCHANGED <<pc, raisedErr, phase, worker>>
    /\ UNCHANGED <<cpu_count, messages, max_retries, sleep_time, batches,
                   script, retry, attempts, sleeps, slept, sent, outcome, cur,
                   taken, nextTask, results>>
    /\ ticks' = Ticked(ticks, IsFailure(results[NextResult(results, drain)]))
    /\ UNCHANGED <<storeVars, localVars>>

\* every result was taken: the with block ends (terminate()), upload returns
PoolReturn ==
    /\ pc = "pool"
    /\ drain = NB
    /\ pc' = "returned"
    /\ phase' = Terminated(phase)
    /\ worker' = [w \in Workers |-> -1]
    /\ UNCHANGED <<cpu_count, messages, max_retries, sleep_time, batches,
                   script, retry, attempts, sleeps, slept, sent, outcome, cur,
                   taken, nextTask, results, drain, raisedErr>>
    /\ UNCHANGED ticks
    /\ UNCHANGED <<storeVars, localVars>>

Next ==
    \/ \E L \in 0..MaxLen, m \in (0 - MaxBelow)..MaxRetries, st \in SleepTimes :
          Upload(MessageList(L), m, st)
    \/ SeqNextBatch
    \/ SeqAttempt
    \/ SeqSleep
    \/ SeqRangeExhausted
    \/ SeqReturn
    \/ \E w \in Workers : Dispatch(w)
    \/ \E w \in Workers : WorkerAttempt(w)
    \/ \E w \in Workers : WorkerSleep(w)
    \/ \E w \in Workers : WorkerRangeExhausted(w)
    \/ Observe
    \/ PoolReturn

Spec == Init /\ [][Next]_vars

\* the steps of the process that called upload, and those of worker w of the
\* pool (a process of its own)
MainStep ==
    \/ SeqNextBatch
    \/ SeqAttempt
    \/ SeqSleep
    \/ SeqRangeExhausted
    \/ SeqReturn
    \/ Observe
    \/ PoolReturn

WorkerStep(w) ==
    /\ w \in Workers
    /\ \/ Dispatch(w)
       \/ WorkerAttempt(w)
       \/ WorkerSleep(w)
       \/ WorkerRangeExhausted(w)

\* a step of upload or of one of its workers
Run == MainStep \/ \E w \in Workers : WorkerStep(w)

\* while some process of upload can take a step, one of them does: the
\* operating system runs them, and the calls of the service and of
\* time.sleep return
NextLive ==
    \/ \E L \in 0..MaxLiveLen, m \in (0 - MaxBelow)..MaxRetries,
          st \in SleepTimes : Upload(MessageList(L), m, st)
    \/ MainStep
    \/ \E w \in Workers : WorkerStep(w)

LiveSpec == Init /\ [][NextLive]_vars /\ WF_vars(Run)

\* upload up to the choice of the path only: the entries and the batches of
\* longer message lists
NextPartition ==
    \E L \in 0..MaxListLen, m \in (0 - MaxBelow)..MaxRetries, st \in SleepTimes :
        Upload(MessageList(L), m, st)

SpecPartition == Init /\ [][NextPartition]_vars

\* ------------------------------------------------------------------------
\* QueueManager(queue_name): __init__ and _get_queue_url
\* ------------------------------------------------------------------------
\* the except clauses of _get_queue_url that go on to create_queue
QueueCreatesOn(ans) == ans \in {"QueueDoesNotExist", "NonExistentQueue"}

\* what the call raises when get_queue_by_name answered ans: an error that is
\* no ClientError passes through; a ClientError that is caught and creates
\* nothing leaves the local name queue unbound at "return queue.url"
QueueError(ans) ==
    IF ans = "found" \/ QueueCreatesOn(ans) THEN "None"
    ELSE IF ans = "AccessDenied" THEN "UnboundLocalError"
    ELSE ans

ConstructQueue(name, ans) ==
    /\ constructs < MaxConstructs
    /\ ans \in QueueAnswers(name \in queues)
    /\ constructs' = constructs + 1
    /\ queues' = IF QueueCreatesOn(ans) THEN queues \cup {name} ELSE queues
    /\ queueCreates' =
           IF QueueCreatesOn(ans)
           THEN [queueCreates EXCEPT ![name] = @ + 1]
           ELSE queueCreates
    /\ qmgr' = [ok |-> QueueError(ans) = "None",
                name |-> name,
                url |-> IF QueueError(ans) = "None" THEN Url(name) ELSE "None",
                answer |-> ans,
                created |-> QueueCreatesOn(ans),
                existed |-> name \in queues,
                err |-> QueueError(ans)]
    /\ UNCHANGED <<buckets, bucketCreates, s3mgr, s3op, up>>
    /\ UNCHANGED <<uploadVars, localVars>>

\* ------------------------------------------------------------------------
\* S3Manager(bucket_name): __init__ and create_bucket
\* ------------------------------------------------------------------------
\* the except clause of create_bucket that goes on to s3_client.create_bucket
\* catches every ClientError of head_bucket
BucketCreatesOn(ans) == ans \in {"NotFound", "Forbidden"}

\* what s3_client.create_bucket answers: a bucket the caller owns is
\* answered with BucketAlreadyOwnedByYou, or with success by the endpoint
\* that treats the call as idempotent
CreateAnswers(exists) ==
    IF exists THEN {"BucketAlreadyOwnedByYou", "ok"} ELSE {"ok"}

\* an error raised inside the except clause of head_bucket's ClientError is
\* not seen by the except clauses next to it
HandlerError(c) == IF c = "ok" THEN "None" ELSE c

BucketError(ans, c) ==
    IF ans = "found" THEN "None"
    ELSE IF BucketCreatesOn(ans) THEN HandlerError(c)
    ELSE ans

ConstructS3(arg, ans, c) ==
    /\ constructs < MaxConstructs
    /\ up.pc \notin {"try", "wait"}
    /\ ans \in HeadAnswers(BucketNameOf(arg) \in buckets)
    /\ c \in IF BucketCreatesOn(ans)
             THEN CreateAnswers(BucketNameOf(arg) \in buckets)
             ELSE {"None"}
    /\ constructs' = constructs + 1
    /\ buckets' = IF BucketCreatesOn(ans)
                  THEN buckets \cup {BucketNameOf(arg)}
                  ELSE buckets
    /\ bucketCreates' =
           IF BucketCreatesOn(ans)
           THEN [bucketCreates EXCEPT ![BucketNameOf(arg)] = @ + 1]
           ELSE bucketCreates
    /\ s3mgr' = [ok |-> BucketError(ans, c) = "None",
                 arg |-> arg,
                 bucket_name |-> BucketNameOf(arg),
                 dirpath |-> DirpathOf(arg),
                 answer |-> ans,
                 created |-> BucketCreatesOn(ans),
                 createAnswer |-> c,
                 existed |-> BucketNameOf(arg) \in buckets,
                 err |-> BucketError(ans, c)]
    /\ s3op' = NoKeyOp
    /\ up' = NoUpload
    /\ UNCHANGED <<queues, queueCreates, qmgr>>
    /\ UNCHANGED <<uploadVars, localVars>>

\* ------------------------------------------------------------------------
\* S3Manager: the operations on a key
\* ------------------------------------------------------------------------
\* delete, upload_file, read_file, exists, download_file: the key is
\* addressed at os.path.join(self.dirpath, key)
KeyOp(op, key) ==
    /\ s3mgr.ok
    /\ up.pc \notin {"try", "wait"}
    /\ s3op' = [op |-> op, key |-> key, path |-> PathJoin(s3mgr.dirpath, key)]
    /\ up' = NoUpload
    /\ UNCHANGED <<queues, buckets, queueCreates, bucketCreates, constructs,
                   qmgr, s3mgr>>
    /\ UNCHANGED <<uploadVars, localVars>>

\* upload(obj, key) is wrapped by retry(stop_after_attempt(5),
\* wait_exponential(...)), which has no retry condition of its own: whatever
\* the function raises, the wrapper waits and calls it again, and after the
\* last attempt it raises RetryError
S3Upload(key) ==
    /\ s3mgr.ok
    /\ up.pc \notin {"try", "wait"}
    /\ up' = [pc |-> "try", key |-> key,
              path |-> PathJoin(s3mgr.dirpath, key), attempt |-> 1,
              calls |-> 0, waits |-> 0, fatalAt |-> 0, err |-> "None"]
    /\ s3op' = [op |-> "upload", key |-> key,
                path |-> PathJoin(s3mgr.dirpath, key)]
    /\ UNCHANGED <<queues, buckets, queueCreates, bucketCreates, constructs,
                   qmgr, s3mgr>>
    /\ UNCHANGED <<uploadVars, localVars>>

\* the function raises again whatever ClientError put_object raised
Reraised(ans) == ans # "ok"

\* the wrapper stops at the attempt whose number reaches stop_after_attempt
Stops(attempt) == attempt >= stop_after_attempt

\* one call of put_object and what the function and the wrapper make of it
S3Put(ans) ==
    /\ up.pc = "try"
    /\ ans \in PutAnswers
    /\ up' = [up EXCEPT
                !.calls = @ + 1,
                !.fatalAt = IF @ = 0 /\ ans \notin {"ok", "SlowDown"}
                            THEN up.calls + 1 ELSE @,
                !.pc = IF ~Reraised(ans) THEN "returned"
                       ELSE IF Stops(up.attempt) THEN "raised"
                       ELSE "wait",
                !.err = IF ~Reraised(ans) THEN "None"
                        ELSE IF Stops(up.attempt) THEN "RetryError"
                        ELSE ans]
    /\ UNCHANGED <<queues, buckets, queueCreates, bucketCreates, constructs,
                   qmgr, s3mgr, s3op>>
    /\ UNCHANGED <<uploadVars, localVars>>

\* the wait of the wrapper is over: the next attempt
S3Wait ==
    /\ up.pc = "wait"
    /\ up' = [up EXCEPT !.pc = "try", !.attempt = @ + 1, !.waits = @ + 1]
    /\ UNCHANGED <<queues, buckets, queueCreates, bucketCreates, constructs,
                   qmgr, s3mgr, s3op>>
    /\ UNCHANGED <<uploadVars, localVars>>

\* the constructions of managers against the two services
NextResolve ==
    \/ \E name \in QueueNames, ans \in QueueAnswers(TRUE) \cup QueueAnswers(FALSE) :
          ConstructQueue(name, ans)
    \/ \E arg \in BucketArgs, ans \in HeadAnswers(TRUE) \cup HeadAnswers(FALSE),
          c \in CreateAnswers(TRUE) \cup {"None"} : ConstructS3(arg, ans, c)

\* an S3Manager and the calls its caller makes on it, one after the other
NextS3 ==
    \/ \E arg \in BucketArgs, ans \in HeadAnswers(TRUE) \cup HeadAnswers(FALSE),
          c \in CreateAnswers(TRUE) \cup {"None"} : ConstructS3(arg, ans, c)
    \/ \E op \in KeyOps, key \in Keys : KeyOp(op, key)
    \/ \E key \in Keys : S3Upload(key)
    \/ \E ans \in PutAnswers : S3Put(ans)
    \/ S3Wait

\* the services hold any of the destinations before the first manager is
\* constructed
InitStore ==
    /\ cpu_count = 1
    /\ UploadIdle
    /\ queues \in SUBSET QueueNames
    /\ buckets \in SUBSET BucketNames
    /\ ManagersFresh
    /\ LocalLoaded(<<>>)

SpecResolve == InitStore /\ [][NextResolve]_vars

\* the store holds any of the buckets before the first S3Manager is constructed
InitS3 ==
    /\ cpu_count = 1
    /\ UploadIdle
    /\ queues = {}
    /\ buckets \in SUBSET BucketNames
    /\ ManagersFresh
    /\ LocalLoaded(<<>>)

SpecS3 == InitS3 /\ [][NextS3]_vars

\* ------------------------------------------------------------------------
\* LocalQueueManager
\* ------------------------------------------------------------------------
\* the messages of the JSON file and of upload, each named by the place it
\* takes in the list
LocalList(first, n) == [i \in 1..n |-> first + i - 1]

\* logger.warning(...): one more record
WarnedNot(n) == n

Warned(n) == n + 1

\* a slice bound as Python reads it: counted from the end when negative,
\* and kept within the list
SliceBound(x, len) == IF x < 0 THEN Max(x + len, 0) ELSE Min(x, len)

\* self.messages[i : j]
LocalSlice(msgs, i, j) ==
    IF SliceBound(i, Len(msgs)) >= SliceBound(j, Len(msgs)) THEN <<>>
    ELSE SubSeq(msgs, SliceBound(i, Len(msgs)) + 1, SliceBound(j, Len(msgs)))

\* self.messages[i] raises IndexError outside -len .. len - 1
Indexable(msgs, i) == 0 - Len(msgs) <= i /\ i < Len(msgs)

\* self.messages[i], counted from the end when i is negative
Item(msgs, i) == IF i < 0 THEN msgs[i + Len(msgs) + 1] ELSE msgs[i + 1]

\* self.current_index += max_messages
NextIndexByTaken(msgs, idx, n) == idx + Len(LocalSlice(msgs, idx, idx + n))

NextIndex(msgs, idx, n) == idx + n

\* upload(messages): self.messages.extend(messages)
LocalUpload(n) ==
    /\ lcalls < MaxLocalCalls
    /\ lcalls' = lcalls + 1
    /\ local_messages' =
           local_messages \o LocalList(Len(local_messages) + 1, n)
    /\ lcall' = [op |-> "upload", max_messages |-> 0, raised |-> "None",
                 out |-> <<>>]
    /\ skipped' = skipped \cup
           {m \in Len(local_messages) + 1 .. Len(local_messages) + n :
                m - 1 < current_index}
    /\ UNCHANGED <<current_index, warnings, rewound>>
    /\ UNCHANGED <<uploadVars, storeVars>>

\* size: len(self.messages)
LocalSize ==
    /\ lcalls < MaxLocalCalls
    /\ lcalls' = lcalls + 1
    /\ lcall' = [op |-> "size", max_messages |-> 0, raised |-> "None",
                 out |-> <<Len(local_messages)>>]
    /\ UNCHANGED <<local_messages, current_index, warnings, skipped, rewound>>
    /\ UNCHANGED <<uploadVars, storeVars>>

\* get_next(max_messages, visibility_timeout): a visibility_timeout that is
\* not None is warned about; max_messages = 1 indexes the list (IndexError
\* where it holds no such item, before the cursor moves), any other takes a
\* slice and moves the cursor by max_messages
LocalGetNext(n, vt) ==
    /\ lcalls < MaxLocalCalls
    /\ lcalls' = lcalls + 1
    /\ warnings' = IF vt # "None" THEN Warned(warnings) ELSE warnings
    /\ IF n = 1
       THEN IF Indexable(local_messages, current_index)
            THEN /\ lcall' = [op |-> "get_next", max_messages |-> n,
                              raised |-> "None",
                              out |-> <<Item(local_messages, current_index)>>]
                 /\ current_index' = current_index + 1
            ELSE /\ lcall' = [op |-> "get_next", max_messages |-> n,
                              raised |-> "IndexError", out |-> <<>>]
                 /\ current_index' = current_index
       ELSE /\ lcall' = [op |-> "get_next", max_messages |-> n,
                         raised |-> "None",
                         out |-> LocalSlice(local_messages, current_index,
                                            current_index + n)]
            /\ current_index' = NextIndex(local_messages, current_index, n)
    /\ rewound' = (rewound \/ n < 0)
    /\ UNCHANGED <<local_messages, skipped>>
    /\ UNCHANGED <<uploadVars, storeVars>>

\* delete(message): a warning, nothing else
LocalDelete(message) ==
    /\ lcalls < MaxLocalCalls
    /\ lcalls' = lcalls + 1
    /\ warnings' = Warned(warnings)
    /\ lcall' = [op |-> "delete", max_messages |-> 0, raised |-> "None",
                 out |-> <<>>]
    /\ UNCHANGED <<local_messages, current_index, skipped, rewound>>
    /\ UNCHANGED <<uploadVars, storeVars>>

\* purge(): a warning, nothing else
LocalPurge ==
    /\ lcalls < MaxLocalCalls
    /\ lcalls' = lcalls + 1
    /\ warnings' = Warned(warnings)
    /\ lcall' = [op |-> "purge", max_messages |-> 0, raised |-> "None",
                 out |-> <<>>]
    /\ UNCHANGED <<local_messages, current_index, skipped, rewound>>
    /\ UNCHANGED <<uploadVars, storeVars>>

NextLocal ==
    \/ \E n \in 0..MaxAppend : LocalUpload(n)
    \/ LocalSize
    \/ \E n \in (0 - MaxBack)..MaxGet, vt \in {"None", "30"} :
          LocalGetNext(n, vt)
    \/ \E message \in 0..MaxLoaded + 1 : LocalDelete(message)
    \/ LocalPurge

\* the manager after __init__: the list of the JSON file, the cursor at 0
InitLocal ==
    /\ cpu_count = 1
    /\ UploadIdle
    /\ queues = {}
    /\ buckets = {}
    /\ ManagersFresh
    /\ \E n \in 0..MaxLoaded : LocalLoaded(LocalList(1, n))

SpecLocal == InitLocal /\ [][NextLocal]_vars

\* the control state and the CPU count stay in their ranges
TypeOK ==
    /\ pc \in {"idle", "seq", "pool", "returned", "raised"}
    /\ cpu_count \in 1..MaxCpu

\* ------------------------------------------------------------------------
\* Vocabulary of the properties
\* ------------------------------------------------------------------------
Batches == 1..NB

\* the retry loop of batch b is over: it reported success or failed for good
Terminal(b) == phase[b] = "done"

\* upload handed control back to its caller
Over == pc \in {"returned", "raised"}

\* the sequential loop has taken a batch / a worker of the pool has taken one
OnSeq == cur >= 1

OnPool == nextTask > 1

\* the call of _upload_batch that raises the non-transient error was made
FatalRaised(b) == script[b].fin = "fatal" /\ attempts[b] > script[b].k

\* the jobs whose terminal outcome upload has seen: the results taken from
\* imap, or the batches the sequential loop has run to their end
Observed ==
    IF OnPool THEN drain ELSE Cardinality({b \in Batches : Terminal(b)})

\* those of them that ended in success
ObservedSuccess ==
    IF OnPool THEN Cardinality({b \in 1..drain : ~IsFailure(results[b])})
    ELSE Cardinality({b \in Batches : Terminal(b) /\ outcome[b] = "success"})

\* a step that is a call of LocalQueueManager.get_next
GetNextStep == lcalls' = lcalls + 1 /\ lcall'.op = "get_next"

\* the messages of msgs whose index lies in the window c .. c + n - 1, in
\* the order of the list
Window(msgs, c, n) ==
    [k \in 1..Cardinality({i \in 0..Len(msgs) - 1 : c <= i /\ i < c + n}) |->
        msgs[Max(c, 0) + k]]

RECURSIVE Flatten(_)
Flatten(ss) == IF ss = <<>> THEN <<>> ELSE Head(ss) \o Flatten(Tail(ss))

\* ------------------------------------------------------------------------
\* C1: a batch whose submission fails transiently exactly k times and then
\* succeeds is reported as success iff k < max_retries, and _upload_batch is
\* called exactly min(k+1, max_retries) times for it, on both paths and for
\* every max_retries.
\* ------------------------------------------------------------------------
C1_RetryBudget ==
    \A b \in Batches :
        (Terminal(b) /\ script[b].fin = "ok") =>
            /\ (outcome[b] = "success") <=> (script[b].k < max_retries)
            /\ attempts[b] = Min(script[b].k + 1, max_retries)

C3_Partition ==
    pc # "idle" =>
        /\ NB = CeilDiv(Len(messages), 10)
        /\ \A b \in Batches : b < NB => Len(batches[b]) = 10
        /\ \A b \in Batches : Len(batches[b]) \in 1..10
        /\ Len(Flatten(batches)) = Len(messages)
        /\ \A i \in 1..Len(messages) :
              Flatten(batches)[i].MessageBody = MessageBody(messages[i])
        /\ Len(messages) = 0 => batches = <<>>

C3_Witness ==
    /\ pc # "idle"
    /\ Len(messages) = 25
    /\ NB = 3
    /\ Len(batches[1]) = 10
    /\ Len(batches[2]) = 10
    /\ Len(batches[3]) = 5

\* ------------------------------------------------------------------------
\* C4: a batch whose last permitted attempt still fails with the transient
\* error makes upload fail: the sequential path raises it at that attempt;
\* on the pooled path the worker returns the error as a value (it does not
\* raise it) and upload raises it when it observes that result.
\* ------------------------------------------------------------------------
C4_Exhausted ==
    \A b \in Batches :
        outcome[b] = "exhausted" =>
            /\ attempts[b] = max_retries
            /\ sent[b] = 0
            /\ pc # "returned"
            /\ OnSeq =>
                  (pc = "raised" /\ raisedErr = [batch |-> b, err |-> "ResponseParserError"])
            /\ OnPool =>
                  /\ results[b] = [ready |-> TRUE, raised |-> FALSE,
                                   value |-> "ResponseParserError"]
                  /\ drain >= b =>
                        (pc = "raised" /\
                         raisedErr = [batch |-> b, err |-> "ResponseParserError"])
                  /\ drain < b => (pc = "raised" => raisedErr.batch < b)

C4_Witness ==
    \E b \in Batches :
        /\ OnPool
        /\ outcome[b] = "exhausted"
        /\ results[b].raised = FALSE
        /\ drain = b
        /\ pc = "raised"
        /\ raisedErr = [batch |-> b, err |-> "ResponseParserError"]

\* ------------------------------------------------------------------------
\* C5: on the pooled path upload does not hand control back (return or
\* raise) while a batch a worker has taken is short of a terminal outcome:
\* every batch taken by a worker runs to success, fatal failure or exhausted
\* retries and is never cancelled.
\* ------------------------------------------------------------------------
C5_NoCancellation ==
    (OnPool /\ Over) => \A b \in Batches : taken[b] > 0 => Terminal(b)

\* ------------------------------------------------------------------------
\* C6: on the pooled path no batch is taken by more than one worker, and
\* when upload returns normally every batch was submitted successfully
\* exactly once (none skipped, none submitted twice).
\* ------------------------------------------------------------------------
C6_ExactlyOnce ==
    /\ \A b \in Batches : taken[b] <= 1
    /\ \A v, w \in Workers : (v # w /\ worker[v] >= 1) => worker[v] # worker[w]
    /\ (pc = "returned" /\ NB >= cpu_count) =>
          \A b \in Batches :
              /\ taken[b] = 1
              /\ outcome[b] = "success"
              /\ sent[b] = 1

\* ------------------------------------------------------------------------
\* C7: on the sequential path a batch gets its first attempt only after the
\* batch before it was submitted successfully; when upload raises at batch j
\* every batch before j is submitted exactly once (and stays so) and no batch
\* after j was attempted.
\* ------------------------------------------------------------------------
C7_SequentialOrder ==
    ~OnPool =>
        /\ \A b \in Batches :
              (b > 1 /\ attempts[b] > 0) =>
                  (sent[b - 1] = 1 /\ outcome[b - 1] = "success")
        /\ \A b \in Batches : b > cur => (attempts[b] = 0 /\ phase[b] = "new")
        /\ pc = "raised" =>
              /\ raisedErr.batch = cur
              /\ outcome[cur] \in {"exhausted", "fatal"}
              /\ \A b \in Batches : b < cur => sent[b] = 1
              /\ \A b \in Batches : b > cur => attempts[b] = 0

C7_Witness ==
    /\ OnSeq
    /\ pc = "raised"
    /\ cur = 2
    /\ raisedErr.batch = 2
    /\ sent[1] = 1
    /\ sent[2] = 0

C9_BatchLocalIds ==
    \A b \in Batches :
        \A j \in 1..Len(batches[b]) : batches[b][j].Id = Str(j - 1)

\* C9, as the code has it: in every batch each entry's Id is the string form
\* of the entry's zero-based position in the whole message list, so entry j
\* (zero-based) of batch b (zero-based) has Id str(10*b + j); only the first
\* batch has the Ids "0" .. "9".
C9_ListPositionIds ==
    \A b \in Batches :
        \A j \in 1..Len(batches[b]) :
            /\ batches[b][j].Id = Str((b - 1) * 10 + (j - 1))
            /\ b = 1 => batches[b][j].Id = Digits[j]

C9_Witness ==
    /\ NB = 3
    /\ Len(batches[3]) = 5
    /\ batches[2][1].Id = "10"
    /\ batches[2][10].Id = "19"
    /\ batches[3][5].Id = "24"

C11_TickPerObserved ==
    Over => ticks = Observed

\* C11, amended: upload emits one progress tick for each job it has observed
\* as success and none for the job whose failure it raises: when upload
\* returns or raises, the tick count is the number of jobs observed as
\* success (one less than the jobs observed when it raises); the count never
\* decreases and never exceeds the number of batches.
C11_TickPerSuccess ==
    /\ [](/\ ticks <= NB
          /\ ticks <= ObservedSuccess
          /\ Over => ticks = ObservedSuccess
          /\ pc = "raised" => ticks = Observed - 1
          /\ pc = "returned" => ticks = NB)
    /\ [][ticks' >= ticks]_vars

C11_Witness ==
    /\ pc = "raised"
    /\ OnPool
    /\ raisedErr.batch = 2
    /\ drain = 2
    /\ ticks = 1

\* ------------------------------------------------------------------------
\* C19: with max_retries <= 0 no batch submission is attempted and every job
\* is still reported as success: the sequential loop passes every batch,
\* _upload_batch_with_retry returns None, and upload does not raise; when it
\* returns, nothing was sent.
\* ------------------------------------------------------------------------
C19_ZeroBudget ==
    max_retries <= 0 =>
        /\ pc # "raised"
        /\ \A b \in Batches :
              /\ attempts[b] = 0
              /\ sent[b] = 0
              /\ sleeps[b] = 0
              /\ Terminal(b) => outcome[b] = "success"
              /\ (OnPool /\ Terminal(b)) =>
                    results[b] = [ready |-> TRUE, raised |-> FALSE, value |-> "None"]
        /\ pc = "returned" =>
              \A b \in Batches : Terminal(b) /\ outcome[b] = "success"

C19_Witness ==
    /\ max_retries <= 0
    /\ pc = "returned"
    /\ OnPool
    /\ NB = 2
    /\ \A b \in Batches : outcome[b] = "success" /\ sent[b] = 0

\* ------------------------------------------------------------------------
\* C20: on the pooled path upload observes the results in the order of the
\* batches, whatever the order in which the workers finish: the error it
\* raises is that of the lowest-indexed failing batch, raised after the
\* results of all lower-indexed batches were observed as success.
\* ------------------------------------------------------------------------
C20_OrderedDrain ==
    OnPool =>
        /\ \A b \in 1..drain : results[b].ready
        /\ pc # "raised" => \A b \in 1..drain : ~IsFailure(results[b])
        /\ pc = "raised" =>
              /\ drain >= 1
              /\ raisedErr.batch = drain
              /\ raisedErr.err = results[drain].value
              /\ outcome[drain] \in {"exhausted", "fatal"}
              /\ \A b \in 1..(drain - 1) :
                    outcome[b] = "success" /\ ~IsFailure(results[b])
              /\ \A b \in Batches :
                    outcome[b] \in {"exhausted", "fatal"} => raisedErr.batch <= b

C20_Witness ==
    /\ OnPool
    /\ pc = "raised"
    /\ NB = 2
    /\ outcome[1] = "exhausted"
    /\ attempts[1] = 3
    /\ outcome[2] = "fatal"
    /\ attempts[2] = 1
    /\ raisedErr = [batch |-> 1, err |-> "ResponseParserError"]

\* ------------------------------------------------------------------------
\* C18: for every message list, max_retries, sleep_time and pattern of
\* successes, transient and fatal failures, upload eventually returns or
\* raises on both paths; no job makes more than max_retries attempts (none
\* when max_retries <= 0).
\* ------------------------------------------------------------------------
C18_Terminates ==
    /\ [](\A b \in Batches : attempts[b] <= Max(0, max_retries))
    /\ (pc \in {"seq", "pool"}) ~> Over

C18_Witness ==
    /\ pc = "raised"
    /\ OnPool
    /\ NB = 2
    /\ max_retries = 3
    /\ attempts[1] = 3
    /\ attempts[2] = 3

\* ------------------------------------------------------------------------
\* C12: constructing a manager for a name that does not exist invokes
\* creation exactly once and leaves the manager holding the created handle;
\* constructing one for a name that exists resolves to its handle and
\* invokes creation zero times; across all constructions for one name,
\* creation is invoked at most once.
\* ------------------------------------------------------------------------
C12_CreateOnce ==
    /\ \A n \in QueueNames : queueCreates[n] <= 1
    /\ \A b \in BucketNames : bucketCreates[b] <= 1
    /\ qmgr.ok =>
          /\ qmgr.name \in queues
          /\ qmgr.url = Url(qmgr.name)
          /\ qmgr.created <=> ~qmgr.existed
    /\ s3mgr.ok =>
          /\ s3mgr.bucket_name \in buckets
          /\ s3mgr.created <=> ~s3mgr.existed

\* ------------------------------------------------------------------------
\* C13: when create_bucket of the store answers BucketAlreadyOwnedByYou,
\* S3Manager.create_bucket treats it as success: no error propagates and the
\* construction of the manager completes.
\* ------------------------------------------------------------------------
C13_OwnedTolerated ==
    s3mgr.createAnswer = "BucketAlreadyOwnedByYou" =>
        s3mgr.ok /\ s3mgr.err = "None"

\* ------------------------------------------------------------------------
\* C14: creation is attempted only when resolution failed with a not-found
\* answer; when it failed with any other error no creation is attempted and
\* the construction aborts with a failure, for QueueManager and S3Manager.
\* ------------------------------------------------------------------------
C14_CreateOnlyNotFound ==
    /\ qmgr.created => qmgr.answer \in NotFoundAnswers
    /\ s3mgr.created => s3mgr.answer \in NotFoundAnswers
    /\ qmgr.answer \notin NotFoundAnswers \cup {"found", "None"} =>
          ~qmgr.created /\ ~qmgr.ok /\ qmgr.err # "None"
    /\ s3mgr.answer \notin NotFoundAnswers \cup {"found", "None"} =>
          ~s3mgr.created /\ ~s3mgr.ok /\ s3mgr.err # "None"

\* ------------------------------------------------------------------------
\* C16: in S3Manager.upload a ClientError of put_object whose code is not
\* SlowDown is never retried: put_object is not invoked again in that call of
\* upload (a first attempt that raises it is the only one) and the error
\* propagates to the caller.
\* ------------------------------------------------------------------------
C16_FatalNotRetried ==
    up.fatalAt > 0 =>
        /\ up.calls = up.fatalAt
        /\ up.pc = "raised"
        /\ up.err = "AccessDenied"

\* ------------------------------------------------------------------------
\* C17: for a constructor argument "B/D" S3Manager uses B as the bucket and
\* D as the directory path, and every key passed to upload, delete,
\* upload_file, read_file, exists and download_file is addressed as D joined
\* with the key; for an argument without "/" the directory path is empty.
\* ------------------------------------------------------------------------
C17_DirPath ==
    s3mgr.ok =>
        /\ s3mgr.bucket_name = SplitFirst(s3mgr.arg)
        /\ s3mgr.dirpath = AfterBucket(s3mgr.arg)
        /\ s3op.op # "None" =>
              s3op.path = PathJoin(AfterBucket(s3mgr.arg), s3op.key)

\* ------------------------------------------------------------------------
\* C15: on LocalQueueManager, in any state and for any argument, delete and
\* purge do not raise, emit one warning, and leave the message list, its
\* size and current_index as they were.
\* ------------------------------------------------------------------------
C15_UnsupportedNoOp ==
    [][(lcalls' = lcalls + 1 /\ lcall'.op \in {"delete", "purge"}) =>
          /\ lcall'.raised = "None"
          /\ warnings' = warnings + 1
          /\ local_messages' = local_messages
          /\ Len(local_messages') = Len(local_messages)
          /\ current_index' = current_index]_vars

C15_Witness ==
    /\ lcall.op \in {"delete", "purge"}
    /\ warnings >= 2
    /\ Len(local_messages) = 3
    /\ current_index > Len(local_messages)

\* ------------------------------------------------------------------------
\* C21: get_next with max_messages = n > 1 moves current_index by exactly n
\* whatever remains and returns the messages that exist in that window; a
\* message that upload appended at an index below the cursor is returned by
\* no later get_next; with max_messages = 1 the cursor moves by 1 on success
\* and stays when the call fails because no message remains.
\* ------------------------------------------------------------------------
C21_CursorSkips ==
    [][GetNextStep =>
          /\ lcall'.max_messages > 1 =>
                /\ current_index' = current_index + lcall'.max_messages
                /\ lcall'.out = Window(local_messages, current_index,
                                       lcall'.max_messages)
          /\ lcall'.max_messages = 1 =>
                IF lcall'.raised = "None"
                THEN current_index' = current_index + 1
                ELSE current_index' = current_index
          /\ \A k \in 1..Len(lcall'.out) : lcall'.out[k] \notin skipped]_vars

\* C21 as it holds: the cursor moves by max_messages for every value but 1,
\* negative ones included; the window is returned while the cursor is not
\* negative; a message appended below the cursor is returned by no later
\* get_next as long as no call has passed a negative max_messages, and until
\* then the cursor never moves back; with max_messages = 1 the call fails
\* exactly when the list holds no item at the cursor, and then the cursor
\* stays.
C21_Cursor ==
    [][GetNextStep =>
          /\ lcall'.max_messages # 1 =>
                /\ current_index' = current_index + lcall'.max_messages
                /\ lcall'.raised = "None"
          /\ (lcall'.max_messages > 1 /\ current_index >= 0) =>
                lcall'.out = Window(local_messages, current_index,
                                    lcall'.max_messages)
          /\ lcall'.max_messages = 1 =>
                /\ (lcall'.raised = "None") <=>
                       Indexable(local_messages, current_index)
                /\ IF lcall'.raised = "None"
                   THEN current_index' = current_index + 1
                   ELSE current_index' = current_index
          /\ ~rewound' =>
                /\ current_index >= 0
                /\ current_index' >= current_index
                /\ \A k \in 1..Len(lcall'.out) : lcall'.out[k] \notin skipped]_vars

C21_Witness ==
    /\ lcall.op = "get_next"
    /\ lcall.max_messages = 2
    /\ ~rewound
    /\ skipped = {3}
    /\ lcall.out = <<4>>
    /\ Len(local_messages) = 4
    /\ current_index = 5

====
